---- MODULE Spec2Model ----
(***************************************************************************)
(* Model of the EMBL <-> graph JSON converter (src/src/main.rs,            *)
(* src/src/embl_2_json.rs, src/src/json_2_embl.rs).                        *)
(*                                                                         *)
(* One behaviour is one invocation of the program: main dispatches on the  *)
(* command line, process_embl parses the annotation file line by line,     *)
(* builds the graph lines, writes them and runs generate_graph on the      *)
(* written file; convert_json parses its first argument as JSON, reduces   *)
(* the array to EMBL entries and writes the text blocks.                   *)
(*                                                                         *)
(* A Rust String is a sequence of one-character strings, so that the       *)
(* parsing, formatting and serialization of the program are computed on    *)
(* the characters.  Only the messages on standard error, which nothing     *)
(* reads back, are TLA+ strings.                                           *)
(***************************************************************************)
EXTENDS Integers, Sequences, FiniteSets, TLC

(***************************************************************************)
(* Bounds of the model.                                                    *)
(***************************************************************************)
\* longest annotation input, in lines
MaxLines == 4
\* longest annotation input of the specification with the malformed lines
MaxWideLines == 3
\* longest JSON array handed to convert, in elements
MaxElems == 2
\* the longest graph file handed to generate_graph on its own, in lines
MaxGraphLines == 3

(***************************************************************************)
(* Character-level string functions of the Rust standard library, as the   *)
(* parser uses them.                                                       *)
(***************************************************************************)
IsWhitespace(c) == c \in {" ", "\t"}

\* str::starts_with
StartsWith(s, p) ==
    /\ Len(s) >= Len(p)
    /\ \A i \in 1..Len(p) : s[i] = p[i]

\* the suffix of s from (1-based) position i on
DropTo(s, i) == SubSeq(s, i, Len(s))

\* number of leading whitespace characters of s
RECURSIVE LeadingWs(_)
LeadingWs(s) ==
    IF s # <<>> /\ IsWhitespace(Head(s)) THEN 1 + LeadingWs(Tail(s)) ELSE 0

\* number of leading non-whitespace characters of s
RECURSIVE LeadingNonWs(_)
LeadingNonWs(s) ==
    IF s # <<>> /\ ~IsWhitespace(Head(s)) THEN 1 + LeadingNonWs(Tail(s)) ELSE 0

\* str::split_whitespace, collected: the maximal runs of non-whitespace
RECURSIVE SplitWhitespace(_)
SplitWhitespace(s) ==
    LET t == DropTo(s, LeadingWs(s) + 1)
        n == LeadingNonWs(t)
    IN  IF t = <<>> THEN <<>>
        ELSE <<SubSeq(t, 1, n)>> \o SplitWhitespace(DropTo(t, n + 1))

\* str::replace(p, ""): every non-overlapping occurrence of p removed, left to right
RECURSIVE RemoveAll(_, _)
RemoveAll(s, p) ==
    IF s = <<>> THEN <<>>
    ELSE IF StartsWith(s, p) THEN RemoveAll(DropTo(s, Len(p) + 1), p)
    ELSE <<Head(s)>> \o RemoveAll(Tail(s), p)

\* the sequence s reversed
RECURSIVE Reverse(_)
Reverse(s) == IF s = <<>> THEN <<>> ELSE Reverse(Tail(s)) \o <<Head(s)>>

\* str::trim
Trim(s) ==
    LET t == DropTo(s, LeadingWs(s) + 1)
        r == Reverse(t)
    IN  Reverse(DropTo(r, LeadingWs(r) + 1))

\* position of the first space character of s, 0 if there is none
RECURSIVE FirstSpace(_)
FirstSpace(s) ==
    IF s = <<>> THEN 0
    ELSE IF Head(s) = " " THEN 1
    ELSE LET r == FirstSpace(Tail(s)) IN IF r = 0 THEN 0 ELSE r + 1

\* str::splitn(2, ' '), collected: the line cut at its first space
SplitN2(s) ==
    LET i == FirstSpace(s)
    IN  IF i = 0 THEN <<s>> ELSE <<SubSeq(s, 1, i - 1), DropTo(s, i + 1)>>

(***************************************************************************)
(* The literals of the program, as character sequences.                    *)
(***************************************************************************)
P_ID == <<"I", "D">>
P_OC == <<"O", "C">>
P_FT == <<"F", "T">>
P_XX == <<"X", "X">>
P_END == <<"/", "/">>
OC_TAG == <<"O", "C", " ", " ", " ">>
S_node == <<"n", "o", "d", "e">>
S_relationship == <<"r", "e", "l", "a", "t", "i", "o", "n", "s", "h", "i", "p">>
S_Contig == <<"C", "o", "n", "t", "i", "g">>
S_Lead == <<"L", "e", "a", "d">>
S_Gene == <<"G", "e", "n", "e">>
S_OWNS == <<"O", "W", "N", "S">>
S_NEXT == <<"N", "E", "X", "T">>
S_Unnamed == <<"U", "n", "n", "a", "m", "e", "d">>
S_Unknown == <<"U", "n", "k", "n", "o", "w", "n">>
S_unknown == <<"u", "n", "k", "n", "o", "w", "n">>

(***************************************************************************)
(* The line parser of process_embl: what each classified line extracts.    *)
(***************************************************************************)
\* RecordIdOf with nth(0) for nth(1): the tag itself is taken for the id
RecordIdOfFirstToken(line) ==
    LET toks == SplitWhitespace(line)
    IN  RemoveAll(IF Len(toks) >= 1 THEN toks[1] ELSE <<>>, <<";">>)

\* line.split_whitespace().nth(1).unwrap_or_default().replace(";", "")
RecordIdOf(line) ==
    LET toks == SplitWhitespace(line)
    IN  RemoveAll(IF Len(toks) >= 2 THEN toks[2] ELSE <<>>, <<";">>)

\* line.replace("OC   ", "").trim()
OrganismOf(line) == Trim(RemoveAll(line, OC_TAG))

\* parts.len() > 1 for parts = line.splitn(2, ' ')
HasFeatureType(line) == Len(SplitN2(line)) > 1

\* parts[1].trim().split_whitespace().next().unwrap_or("")
FeatureTypeOf(line) ==
    LET toks == SplitWhitespace(Trim(SplitN2(line)[2]))
    IN  IF toks = <<>> THEN <<>> ELSE toks[1]

(***************************************************************************)
(* serde_json values.  A Value is a tagged record; an object is the        *)
(* sequence of its <<key, value>> members in the order of serde_json's     *)
(* sorted map; an Option is a sequence of length 0 (None) or 1 (Some).     *)
(***************************************************************************)
JStr(s) == [k |-> "str", s |-> s]
JNum(n) == [k |-> "num", n |-> n]
JArr(a) == [k |-> "arr", a |-> a]
JObj(o) == [k |-> "obj", o |-> o]
JNull == [k |-> "null"]

\* Value::get(key) with a string key: Some only on an object that has the key
Get(v, key) ==
    IF v.k = "obj" /\ \E i \in 1..Len(v.o) : v.o[i][1] = key
        THEN <<v.o[CHOOSE i \in 1..Len(v.o) : v.o[i][1] = key][2]>>
        ELSE <<>>

\* Value::as_str
AsStr(v) == IF v.k = "str" THEN <<v.s>> ELSE <<>>

\* Value::as_object().is_some()
IsObject(v) == v.k = "obj"

\* Option::and_then(|v| v.as_str())
GetStr(v, key) == IF Get(v, key) = <<>> THEN <<>> ELSE AsStr(Get(v, key)[1])

\* value[key]: Value::Null where Value::get gives None
Index(v, key) == IF Get(v, key) = <<>> THEN JNull ELSE Get(v, key)[1]

\* Option::unwrap_or
UnwrapOr(opt, d) == IF opt = <<>> THEN d ELSE opt[1]

\* the escapes serde_json writes inside a string
RECURSIVE EscapeJson(_)
EscapeJson(cs) ==
    IF cs = <<>> THEN <<>>
    ELSE (CASE Head(cs) = "\"" -> <<"\\", "\"">>
            [] Head(cs) = "\\" -> <<"\\", "\\">>
            [] Head(cs) = "\t" -> <<"\\", "t">>
            [] OTHER -> <<Head(cs)>>) \o EscapeJson(Tail(cs))

\* texts joined with commas
RECURSIVE JoinComma(_)
JoinComma(ts) ==
    IF ts = <<>> THEN <<>>
    ELSE IF Len(ts) = 1 THEN ts[1]
    ELSE ts[1] \o <<",">> \o JoinComma(Tail(ts))

DigitChars == <<"0", "1", "2", "3", "4", "5", "6", "7", "8", "9">>

\* the decimal digits of a natural number
RECURSIVE Digits(_)
Digits(n) ==
    IF n < 10 THEN <<DigitChars[n + 1]>>
    ELSE Digits(n \div 10) \o <<DigitChars[(n % 10) + 1]>>

Quoted(cs) == <<"\"">> \o EscapeJson(cs) \o <<"\"">>

\* serde_json::to_string: the compact text of a value
RECURSIVE ToJsonText(_)
ToJsonText(v) ==
    CASE v.k = "str" -> Quoted(v.s)
      [] v.k = "num" -> Digits(v.n)
      [] v.k = "null" -> <<"n", "u", "l", "l">>
      [] v.k = "arr" ->
            <<"[">> \o JoinComma([i \in 1..Len(v.a) |-> ToJsonText(v.a[i])])
            \o <<"]">>
      [] v.k = "obj" ->
            <<"{">> \o JoinComma([i \in 1..Len(v.o) |->
                        Quoted(v.o[i][1]) \o <<":">> \o ToJsonText(v.o[i][2])])
            \o <<"}">>

(***************************************************************************)
(* serde_json::from_str: a recursive-descent parser on the characters.     *)
(* A parse result is [ok, v, next]: whether a value was read, the value,   *)
(* and the position after it.                                              *)
(***************************************************************************)
ParseErr == [ok |-> FALSE, v |-> JNull, next |-> 0]
ParseOk(v, next) == [ok |-> TRUE, v |-> v, next |-> next]

\* the position of the first non-whitespace character of t at or after i
RECURSIVE SkipWs(_, _)
SkipWs(t, i) ==
    IF i <= Len(t) /\ IsWhitespace(t[i]) THEN SkipWs(t, i + 1) ELSE i

\* the characters of a string literal whose opening quote is before i
RECURSIVE ParseChars(_, _, _)
ParseChars(t, i, acc) ==
    IF i > Len(t) THEN ParseErr
    ELSE IF t[i] = "\"" THEN ParseOk(acc, i + 1)
    ELSE IF t[i] = "\\" THEN
        IF i + 1 > Len(t) THEN ParseErr
        ELSE IF t[i + 1] \in {"\"", "\\"} THEN
            ParseChars(t, i + 2, Append(acc, t[i + 1]))
        ELSE IF t[i + 1] = "t" THEN ParseChars(t, i + 2, Append(acc, "\t"))
        ELSE ParseErr
    ELSE IF t[i] = "\t" THEN ParseErr
    ELSE ParseChars(t, i + 1, Append(acc, t[i]))

\* the number whose digits start at i
RECURSIVE ParseDigits(_, _, _)
ParseDigits(t, i, acc) ==
    IF i <= Len(t) /\ \E d \in 1..10 : DigitChars[d] = t[i]
        THEN ParseDigits(t, i + 1,
                10 * acc + (CHOOSE d \in 1..10 : DigitChars[d] = t[i]) - 1)
        ELSE ParseOk(JNum(acc), i)

RECURSIVE ParseValue(_, _), ParseElements(_, _, _), ParseMembers(_, _, _)

\* a value at i (after optional whitespace)
ParseValue(t, i0) ==
    LET i == SkipWs(t, i0)
    IN  IF i > Len(t) THEN ParseErr
        ELSE IF t[i] = "\"" THEN
            LET r == ParseChars(t, i + 1, <<>>)
            IN  IF r.ok THEN ParseOk(JStr(r.v), r.next) ELSE ParseErr
        ELSE IF t[i] = "[" THEN
            LET j == SkipWs(t, i + 1)
            IN  IF j <= Len(t) /\ t[j] = "]" THEN ParseOk(JArr(<<>>), j + 1)
                ELSE ParseElements(t, j, <<>>)
        ELSE IF t[i] = "{" THEN
            LET j == SkipWs(t, i + 1)
            IN  IF j <= Len(t) /\ t[j] = "}" THEN ParseOk(JObj(<<>>), j + 1)
                ELSE ParseMembers(t, j, <<>>)
        ELSE IF \E d \in 1..10 : DigitChars[d] = t[i] THEN ParseDigits(t, i, 0)
        ELSE IF i + 3 <= Len(t) /\ SubSeq(t, i, i + 3) = <<"n", "u", "l", "l">>
            THEN ParseOk(JNull, i + 4)
        ELSE ParseErr

\* the elements of an array from i on, up to and including the closing bracket
ParseElements(t, i, acc) ==
    LET r == ParseValue(t, i)
        j == SkipWs(t, r.next)
    IN  IF ~r.ok \/ j > Len(t) THEN ParseErr
        ELSE IF t[j] = "]" THEN ParseOk(JArr(Append(acc, r.v)), j + 1)
        ELSE IF t[j] = "," THEN ParseElements(t, j + 1, Append(acc, r.v))
        ELSE ParseErr

\* the members of an object from i on, up to and including the closing brace
ParseMembers(t, i0, acc) ==
    LET i == SkipWs(t, i0)
        key == IF i <= Len(t) /\ t[i] = "\"" THEN ParseChars(t, i + 1, <<>>)
               ELSE ParseErr
        c == SkipWs(t, key.next)
        r == IF key.ok /\ c <= Len(t) /\ t[c] = ":" THEN ParseValue(t, c + 1)
             ELSE ParseErr
        j == SkipWs(t, r.next)
    IN  IF ~r.ok \/ j > Len(t) THEN ParseErr
        ELSE IF t[j] = "}" THEN ParseOk(JObj(Append(acc, <<key.v, r.v>>)), j + 1)
        ELSE IF t[j] = "," THEN ParseMembers(t, j + 1, Append(acc, <<key.v, r.v>>))
        ELSE ParseErr

\* serde_json::from_str::<Value>(text): Some(value), or None for Err
FromStr(text) ==
    LET r == ParseValue(text, 1)
    IN  IF r.ok /\ SkipWs(text, r.next) > Len(text) THEN <<r.v>> ELSE <<>>

(***************************************************************************)
(* The graph builder of process_embl: the values it serializes.            *)
(***************************************************************************)
K_annotations == <<"a", "n", "n", "o", "t", "a", "t", "i", "o", "n", "s">>
K_end == <<"e", "n", "d">>
K_id == <<"i", "d">>
K_label == <<"l", "a", "b", "e", "l">>
K_labels == <<"l", "a", "b", "e", "l", "s">>
K_name == <<"n", "a", "m", "e">>
K_organism == <<"o", "r", "g", "a", "n", "i", "s", "m">>
K_properties == <<"p", "r", "o", "p", "e", "r", "t", "i", "e", "s">>
K_start == <<"s", "t", "a", "r", "t">>
K_type == <<"t", "y", "p", "e">>

\* NodeId that leaves the index out
NodeIdOfRecord(rec, i) == rec \o <<"_">>

\* format!("{}_{}", seq_record_id, index)
NodeId(rec, i) == rec \o <<"_">> \o Digits(i)

\* RelId with a counter that is incremented before it is used
RelIdFromOne(rec, r) == rec \o <<"_", "r", "_">> \o Digits(r + 1)

\* format!("{}_r_{}", seq_record_id, rid)
RelId(rec, r) == rec \o <<"_", "r", "_">> \o Digits(r)

\* a HashMap<String, _> of the parser: a function from its keys
EmptyMap == [x \in {} |-> JNull]

\* HashMap::get
MapGet(m, key) == IF key \in DOMAIN m THEN <<m[key]>> ELSE <<>>

\* HashMap::insert
MapInsert(m, key, v) == (key :> v) @@ m

\* the annotation HashMap<String, String> as a JSON object (at most one key)
AnnotationValue(ann) ==
    JObj(IF K_organism \in DOMAIN ann THEN <<<<K_organism, JStr(ann[K_organism])>>>>
         ELSE <<>>)

\* the contig node: json!({"type": "node", "id": .., "labels": .., "properties": ..})
ContigNode(rec, org, ann) ==
    JObj(<< <<K_id, JStr(rec)>>,
            <<K_labels, JArr(<<JStr(S_Contig)>>)>>,
            <<K_properties, JObj(<< <<K_annotations, AnnotationValue(ann)>>,
                                    <<K_id, JStr(rec)>>,
                                    <<K_name, JStr(org)>>,
                                    <<K_organism, JStr(org)>> >>)>>,
            <<K_type, JStr(S_node)>> >>)

\* NodeType without the special case of the first feature
NodeTypeGene(i) == S_Gene

\* if index == 0 { "Lead" } else { "Gene" }
NodeType(i) == IF i = 0 THEN S_Lead ELSE S_Gene

\* feature.get("type").and_then(|v| v.as_str()).unwrap_or("Unnamed")
NodeName(feature) ==
    IF MapGet(feature, K_type) = <<>> THEN S_Unnamed
    ELSE UnwrapOr(AsStr(MapGet(feature, K_type)[1]), S_Unnamed)

\* feature.get("type").unwrap_or(&Value::String("Unknown"))
NodeTypeProperty(feature) == UnwrapOr(MapGet(feature, K_type), JStr(S_Unknown))

\* the feature node of features[index]
FeatureNode(rec, org, i, feature) ==
    JObj(<< <<K_id, JStr(NodeId(rec, i))>>,
            <<K_labels, JArr(<<JStr(NodeType(i))>>)>>,
            <<K_properties, JObj(<< <<K_name, JStr(NodeName(feature))>>,
                                    <<K_organism, JStr(org)>>,
                                    <<K_type, NodeTypeProperty(feature)>> >>)>>,
            <<K_type, JStr(S_node)>> >>)

\* RelationshipLabel with the test inverted
RelationshipLabelInverted(i) == IF i = 0 THEN S_NEXT ELSE S_OWNS

\* if index == 0 { "OWNS" } else { "NEXT" }
RelationshipLabel(i) == IF i = 0 THEN S_OWNS ELSE S_NEXT

\* StartId that names the node after the current one, not the one before it
StartIdAhead(rec, i) == IF i = 0 THEN rec ELSE NodeId(rec, i + 1)

\* if index == 0 { seq_record_id.clone() } else { format!("{}_{}", .., index - 1) }
StartId(rec, i) == IF i = 0 THEN rec ELSE NodeId(rec, i - 1)

\* StartLabel without the special case of the contig
StartLabelGene(i) == S_Gene

\* the literal start-label hint: if index == 0 { "Contig" } else { "Gene" }
StartLabel(i) == IF i = 0 THEN S_Contig ELSE S_Gene

\* the relationship ending at the node of features[index]
Relationship(rec, r, i) ==
    JObj(<< <<K_end, JObj(<< <<K_id, JStr(NodeId(rec, i))>>,
                             <<K_labels, JArr(<<JStr(NodeType(i))>>)>> >>)>>,
            <<K_id, JStr(RelId(rec, r))>>,
            <<K_label, JStr(RelationshipLabel(i))>>,
            <<K_start, JObj(<< <<K_id, JStr(StartId(rec, i))>>,
                               <<K_labels, JArr(<<JStr(StartLabel(i))>>)>> >>)>>,
            <<K_type, JStr(S_relationship)>> >>)

(***************************************************************************)
(* Inputs: the annotation lines and the files of the model.                *)
(***************************************************************************)
L_ID == <<"I", "D", " ", " ", " ", "A", "1", ";">>
L_OC == <<"O", "C", " ", " ", " ", "B", ".">>
L_FT_CDS == <<"F", "T", " ", " ", " ", "C", "D", "S">>
L_FT_BARE == <<"F", "T">>
L_XX == <<"X", "X">>
L_END == <<"/", "/">>
L_SQ == <<"S", "Q">>
L_ID_BARE == <<"I", "D">>
L_FT_BLANK == <<"F", "T", " ", " ">>
L_FT_gene == <<"F", "T", " ", " ", " ", "g", "e", "n", "e", " ", "1", ".", ".", "9">>

\* one line of each class, and a feature-table line that is the tag alone
LineAlphabet == {L_ID, L_OC, L_FT_CDS, L_FT_BARE, L_XX, L_END, L_SQ}

\* the same with more lines that lack their field, and a second feature type
WideAlphabet == LineAlphabet \cup {L_ID_BARE, L_FT_BLANK, L_FT_gene}

\* the annotation files: every sequence of at most n lines of the alphabet
EmblInputs(alphabet, n) == UNION {[1..m -> alphabet] : m \in 0..n}

\* command-line words and file names
W_embl == <<"e", "m", "b", "l">>
W_process == <<"p", "r", "o", "c", "e", "s", "s">>
W_convert == <<"c", "o", "n", "v", "e", "r", "t">>
W_graph == <<"g", "r", "a", "p", "h">>
N_in_embl == <<"i", "n", ".", "e", "m", "b", "l">>
N_out_json == <<"o", "u", "t", ".", "j", "s", "o", "n">>
N_graph_dot == <<"g", "r", "a", "p", "h", ".", "d", "o", "t">>
N_in_json == <<"i", "n", ".", "j", "s", "o", "n">>
N_out_embl == <<"o", "u", "t", ".", "e", "m", "b", "l">>
N_brackets == <<"[", "]">>

\* a file is absent, or holds a sequence of lines
NoFile == [exists |-> FALSE, data |-> <<>>]
File(d) == [exists |-> TRUE, data |-> d]

FileNames == {N_in_embl, N_out_json, N_graph_dot, N_in_json, N_out_embl, N_brackets}
EmptyFs == [f \in FileNames |-> NoFile]

(***************************************************************************)
(* The literals of convert_json and generate_graph.                        *)
(***************************************************************************)
T_LOCUS == <<"L", "O", "C", "U", "S", " ", " ", " ", " ", " ", " ", " ">>
T_DNA_linear == <<"\t", "D", "N", "A", "\t", "l", "i", "n", "e", "a", "r">>
T_DEFINITION == <<"D", "E", "F", "I", "N", "I", "T", "I", "O", "N", " ", " ">>
T_ACCESSION == <<"A", "C", "C", "E", "S", "S", "I", "O", "N", " ", " ", " ">>
T_VERSION == <<"V", "E", "R", "S", "I", "O", "N", " ", " ", " ", " ", " ">>
T_KEYWORDS == <<"K", "E", "Y", "W", "O", "R", "D", "S", " ", " ", " ", " ">>
T_SOURCE == <<"S", "O", "U", "R", "C", "E", " ", " ", " ", " ", " ", " ">>
T_ORGANISM == <<" ", " ", "O", "R", "G", "A", "N", "I", "S", "M", " ", " ">>
T_FEATURES ==
    <<"F", "E", "A", "T", "U", "R", "E", "S", " ", " ", " ", " ", " ", " ",
      " ", " ", " ", " ", " ", " ", " ", "L", "o", "c", "a", "t", "i", "o",
      "n", "/", "Q", "u", "a", "l", "i", "f", "i", "e", "r", "s">>
T_CDS ==
    <<" ", " ", " ", " ", " ", "C", "D", "S", " ", " ", " ", " ", " ", " ",
      " ", " ", " ", " ", " ", " ", " ", "j", "o", "i", "n", "(", ".", ".",
      ")">>
T_product ==
    <<" ", " ", " ", " ", " ", " ", " ", " ", " ", " ", " ", " ", " ", " ",
      " ", " ", " ", " ", " ", " ", " ", "/", "p", "r", "o", "d", "u", "c",
      "t", "=", "\"">>
T_protein_id ==
    <<" ", " ", " ", " ", " ", " ", " ", " ", " ", " ", " ", " ", " ", " ",
      " ", " ", " ", " ", " ", " ", " ", "/", "p", "r", "o", "t", "e", "i",
      "n", "_", "i", "d", "=", "\"">>
T_translation ==
    <<" ", " ", " ", " ", " ", " ", " ", " ", " ", " ", " ", " ", " ", " ",
      " ", " ", " ", " ", " ", " ", " ", "/", "t", "r", "a", "n", "s", "l",
      "a", "t", "i", "o", "n", "=", "\"">>
T_ORIGIN == <<"O", "R", "I", "G", "I", "N">>
T_digraph == <<"d", "i", "g", "r", "a", "p", "h", " ", "G", " ", "{">>
T_indent == <<" ", " ", " ", " ", "\"">>
T_label == <<"\"", " ", "[", "l", "a", "b", "e", "l", "=", "\"">>
T_arrow == <<"\"", " ", "-", ">", " ", "\"">>
T_close == <<"\"", "]">>
K_locus_tag == <<"l", "o", "c", "u", "s", "_", "t", "a", "g">>
K_protein_id == <<"p", "r", "o", "t", "e", "i", "n", "_", "i", "d">>
K_product == <<"p", "r", "o", "d", "u", "c", "t">>
K_translation == <<"t", "r", "a", "n", "s", "l", "a", "t", "i", "o", "n">>
K_note == <<"n", "o", "t", "e">>

(***************************************************************************)
(* The reducer of convert_json.                                            *)
(***************************************************************************)
\* ExtractEntry without the test of translation: an absent one is taken as ""
ExtractEntryLax(entry) ==
    IF ~IsObject(entry) THEN <<>>
    ELSE IF Get(entry, K_properties) = <<>> THEN <<>>
    ELSE LET properties == Get(entry, K_properties)[1]
         IN  IF GetStr(properties, K_locus_tag) = <<>> THEN <<>>
             ELSE IF GetStr(properties, K_protein_id) = <<>> THEN <<>>
             ELSE IF GetStr(properties, K_product) = <<>> THEN <<>>
             ELSE <<[locus_tag |-> GetStr(properties, K_locus_tag)[1],
                     protein_id |-> GetStr(properties, K_protein_id)[1],
                     product |-> GetStr(properties, K_product)[1],
                     translation |->
                        UnwrapOr(GetStr(properties, K_translation), <<>>)]>>

\* the nested `if let` chain of the loop body: Some(EmblEntry) or None
ExtractEntry(entry) ==
    IF ~IsObject(entry) THEN <<>>
    ELSE IF Get(entry, K_properties) = <<>> THEN <<>>
    ELSE LET properties == Get(entry, K_properties)[1]
         IN  IF GetStr(properties, K_locus_tag) = <<>> THEN <<>>
             ELSE IF GetStr(properties, K_protein_id) = <<>> THEN <<>>
             ELSE IF GetStr(properties, K_product) = <<>> THEN <<>>
             ELSE IF GetStr(properties, K_translation) = <<>> THEN <<>>
             ELSE <<[locus_tag |-> GetStr(properties, K_locus_tag)[1],
                     protein_id |-> GetStr(properties, K_protein_id)[1],
                     product |-> GetStr(properties, K_product)[1],
                     translation |-> GetStr(properties, K_translation)[1]]>>

\* the lines the body of `for entry in embl_entries` appends to output_str
\* (the LOCUS format ends in "linear\n" and a newline: an empty line follows it)
BlockLines(e) ==
    <<T_LOCUS \o e.locus_tag \o T_DNA_linear,
      <<>>,
      T_DEFINITION \o e.product,
      T_ACCESSION \o e.protein_id,
      T_VERSION \o e.protein_id,
      T_KEYWORDS,
      T_SOURCE,
      T_ORGANISM,
      T_FEATURES,
      T_CDS,
      T_product \o e.product \o <<"\"">>,
      T_protein_id \o e.protein_id \o <<"\"">>,
      T_translation \o e.translation \o <<"\"">>,
      T_ORIGIN,
      P_END>>

(***************************************************************************)
(* The JSON arrays handed to convert.                                      *)
(***************************************************************************)
Props(l, p, x, t) ==
    JObj(<< <<K_locus_tag, l>>, <<K_product, x>>, <<K_protein_id, p>>,
            <<K_translation, t>> >>)

\* a node with the four annotation properties
E_full == JObj(<< <<K_properties,
                    Props(JStr(<<"L">>), JStr(<<"P">>), JStr(<<"X">>), JStr(<<"T">>))>> >>)
\* another one, among other members and properties
E_clutter ==
    JObj(<< <<K_id, JStr(<<"n">>)>>,
            <<K_properties,
              JObj(<< <<K_locus_tag, JStr(<<"M">>)>>, <<K_note, JNum(1)>>,
                      <<K_product, JStr(<<"Y">>)>>, <<K_protein_id, JStr(<<"Q">>)>>,
                      <<K_translation, JStr(<<"U">>)>> >>)>>,
            <<K_type, JStr(S_node)>> >>)
\* nodes that lack one of the four, or hold a non-string for it
E_no_locus_tag ==
    JObj(<< <<K_properties,
              JObj(<< <<K_product, JStr(<<"X">>)>>, <<K_protein_id, JStr(<<"P">>)>>,
                      <<K_translation, JStr(<<"T">>)>> >>)>> >>)
E_num_protein_id ==
    JObj(<< <<K_properties,
              Props(JStr(<<"L">>), JNum(7), JStr(<<"X">>), JStr(<<"T">>))>> >>)
E_null_product ==
    JObj(<< <<K_properties,
              Props(JStr(<<"L">>), JStr(<<"P">>), JNull, JStr(<<"T">>))>> >>)
E_no_translation ==
    JObj(<< <<K_properties,
              JObj(<< <<K_locus_tag, JStr(<<"L">>)>>, <<K_product, JStr(<<"X">>)>>,
                      <<K_protein_id, JStr(<<"P">>)>> >>)>> >>)
\* an object without properties, and an element that is no object
E_no_properties == JObj(<< <<K_id, JStr(<<"n">>)>> >>)
E_number == JNum(7)

Elements ==
    {E_full, E_clutter, E_no_locus_tag, E_num_protein_id, E_null_product,
     E_no_translation, E_no_properties, E_number}

\* the arrays of at most MaxElems elements
Arrays == UNION {[1..n -> Elements] : n \in 0..MaxElems}

\* the texts handed to convert as the graph input
ArrayTexts == {ToJsonText(JArr(a)) : a \in Arrays}

(***************************************************************************)
(* The state of one invocation.                                            *)
(***************************************************************************)
VARIABLES
    args,            \* std::env::args(): program name, command, operands
    fs,              \* the file system: file name -> NoFile or File(lines)
    pc,              \* the statement the program is at
    exit_code,       \* the process exit status, -1 while it runs
    stderr,          \* the messages written to standard error
    failure,         \* the fatal condition the invocation met, "none" if none
    lines,           \* process_embl: the lines the reader has not yielded yet
    seq_record_id, annotation, organism, in_feature, current_feature, features,
    content,         \* process_embl: the output lines built so far
    rid,             \* process_embl: the relationship counter
    index,           \* process_embl: the index of the feature loop
    dot_lines,       \* generate_graph: the lines the reader has not yielded yet
    dot_content,     \* generate_graph: the DOT lines built so far
    data,            \* convert_json: the array elements not visited yet
    embl_entries,    \* convert_json: the entries extracted and not yet written
    output_str,      \* convert_json: the output lines built so far
    ret              \* convert_json: its Result, "none" until it returns

parserVars ==
    <<lines, seq_record_id, annotation, organism, in_feature, current_feature,
      features>>
builderVars == <<content, rid, index>>
dotVars == <<dot_lines, dot_content>>
convertVars == <<data, embl_entries, output_str, ret>>
procVars == <<exit_code, stderr, failure>>
vars == <<args, fs, pc, procVars, parserVars, builderVars, dotVars, convertVars>>

\* the locals of both commands as their declarations initialise them
InitLocals ==
    /\ lines = <<>>
    /\ seq_record_id = <<>>
    /\ annotation = EmptyMap
    /\ organism = <<>>
    /\ in_feature = FALSE
    /\ current_feature = EmptyMap
    /\ features = <<>>
    /\ content = <<>>
    /\ rid = 0
    /\ index = 0
    /\ dot_lines = <<>>
    /\ dot_content = <<>>
    /\ data = <<>>
    /\ embl_entries = <<>>
    /\ output_str = <<>>
    /\ ret = "none"

\* `process in.embl out.json`, the annotation file absent or present
InitProcess(inputs) ==
    /\ args = <<W_embl, W_process, N_in_embl, N_out_json>>
    /\ \/ fs = EmptyFs
       \/ \E input \in inputs :
            fs = [EmptyFs EXCEPT ![N_in_embl] = File(input)]

\* `convert <text> out.embl`: the operand is a file name (the file absent, or
\* holding the text of an array) or is itself the text of an array or of a node
\* (the output file then absent, or left over from an earlier run)
InitConvert ==
    \/ /\ \E a \in ArrayTexts \cup {ToJsonText(E_full)} :
            args = <<W_embl, W_convert, a, N_out_embl>>
       /\ fs \in {EmptyFs, [EmptyFs EXCEPT ![N_out_embl] = File(<<T_ORIGIN>>)]}
    \/ /\ \E name \in {N_in_json, N_brackets} :
            /\ args = <<W_embl, W_convert, name, N_out_embl>>
            /\ \/ fs = EmptyFs
               \/ \E a \in ArrayTexts : fs = [EmptyFs EXCEPT ![name] = File(<<a>>)]

\* invocations that main rejects with the usage message
InitUsage ==
    /\ args \in {<<W_embl>>, <<W_embl, W_process>>, <<W_embl, W_process, N_in_embl>>,
                 <<W_embl, W_convert>>, <<W_embl, W_convert, N_in_json>>,
                 <<W_embl, W_graph, N_out_json, N_graph_dot>>}
    /\ fs = EmptyFs

InitWith(inputs) ==
    /\ pc = "main"
    /\ exit_code = -1
    /\ stderr = <<>>
    /\ failure = "none"
    /\ InitLocals
    /\ \/ InitProcess(inputs)
       \/ InitConvert
       \/ InitUsage

Init == InitWith(EmblInputs(LineAlphabet, MaxLines))

\* the same invocations, on shorter annotation files of the wide alphabet
InitWide == InitWith(EmblInputs(WideAlphabet, MaxWideLines))

(***************************************************************************)
(* main                                                                    *)
(***************************************************************************)
\* a panic (expect/unwrap): the message on standard error, exit status 101
Panic(what, msg) ==
    /\ pc' = "exit"
    /\ exit_code' = 101
    /\ stderr' = Append(stderr, msg)
    /\ failure' = what

\* main returns: exit status 0
ReturnFromMain ==
    /\ pc' = "exit"
    /\ exit_code' = 0
    /\ stderr' = stderr

\* convert_json returns Err through `?`; main drops the Result (`let _ =`) and returns
ReturnErr(what) ==
    /\ ret' = "Err"
    /\ failure' = what
    /\ ReturnFromMain

\* too few arguments or an unknown command: usage message, exit(1)
MainUsage ==
    /\ pc = "main"
    /\ \/ Len(args) < 2
       \/ Len(args) >= 2 /\ args[2] \in {W_process, W_convert} /\ Len(args) < 4
       \/ Len(args) >= 2 /\ args[2] \notin {W_process, W_convert}
    /\ pc' = "exit"
    /\ exit_code' = 1
    /\ stderr' = Append(stderr,
            IF Len(args) >= 2 /\ args[2] = W_process
                THEN "Usage: processs <input.embl> <output.json>"
            ELSE IF Len(args) >= 2 /\ args[2] = W_convert
                THEN "Usage: convert <input.json> <output.embl>"
            ELSE "Usage: <commnad> <input.embl> <output.json>")
    /\ UNCHANGED <<args, fs, failure, parserVars, builderVars, dotVars, convertVars>>

\* "process": call process_embl(&args[2], &args[3])
MainProcess ==
    /\ pc = "main"
    /\ Len(args) >= 4
    /\ args[2] = W_process
    /\ pc' = "open_embl"
    /\ UNCHANGED <<args, fs, procVars, parserVars, builderVars, dotVars, convertVars>>

\* "convert": call convert_json(&args[2], &args[3])
MainConvert ==
    /\ pc = "main"
    /\ Len(args) >= 4
    /\ args[2] = W_convert
    /\ pc' = "conv_parse"
    /\ UNCHANGED <<args, fs, procVars, parserVars, builderVars, dotVars, convertVars>>

(***************************************************************************)
(* process_embl: the line parser                                           *)
(***************************************************************************)
\* File::open(input_embl).expect(..), BufReader::new
OpenEmbl ==
    /\ pc = "open_embl"
    /\ IF fs[args[3]].exists
          THEN /\ lines' = fs[args[3]].data
               /\ pc' = "read"
               /\ UNCHANGED procVars
          ELSE /\ Panic("open", "Failed to open EMBL file")
               /\ UNCHANGED lines
    /\ UNCHANGED <<args, fs, seq_record_id, annotation, organism, in_feature,
                   current_feature, features, builderVars, dotVars, convertVars>>

\* the reader yields an Err: line.expect(..) panics
ReadFail ==
    /\ pc = "read"
    /\ lines # <<>>
    /\ Panic("read", "Failed to read lines from EMBL file")
    /\ UNCHANGED <<args, fs, parserVars, builderVars, dotVars, convertVars>>

\* The branches of the loop body.  Each gives the new
\* <<seq_record_id, organism, annotation, in_feature, current_feature, features>>.

\* line.starts_with("ID")
OnIdentifier(line) ==
    <<RecordIdOf(line), organism, annotation, in_feature, current_feature, features>>

\* line.starts_with("OC")
OnOrganism(line) ==
    <<seq_record_id, OrganismOf(line), annotation, in_feature, current_feature,
      features>>

\* OnFeatureTable that stores the new feature at once and leaves none open
OnFeatureTableEager(line) ==
    LET typed == IF HasFeatureType(line)
                    THEN MapInsert(EmptyMap, K_type, JStr(FeatureTypeOf(line)))
                    ELSE EmptyMap
    IN  <<seq_record_id, organism, annotation, FALSE, EmptyMap,
          Append(features, typed)>>

\* OnFeatureTable without current_feature.clear()
OnFeatureTableNoClear(line) ==
    LET pushed == IF in_feature THEN Append(features, current_feature)
                  ELSE features
        typed == IF HasFeatureType(line)
                    THEN MapInsert(current_feature, K_type, JStr(FeatureTypeOf(line)))
                    ELSE current_feature
    IN  <<seq_record_id, organism, annotation, TRUE, typed, pushed>>

\* line.starts_with("FT"): flush the open feature, open a new one, store its type
OnFeatureTable(line) ==
    LET pushed == IF in_feature THEN Append(features, current_feature)
                  ELSE features
        cleared == IF in_feature THEN EmptyMap ELSE current_feature
        typed == IF HasFeatureType(line)
                    THEN MapInsert(cleared, K_type, JStr(FeatureTypeOf(line)))
                    ELSE cleared
    IN  <<seq_record_id, organism, annotation, TRUE, typed, pushed>>

\* OnSectionBreak that also flushes and closes the open feature
OnSectionBreakClosing ==
    <<seq_record_id, organism, MapInsert(annotation, K_organism, organism),
      FALSE, EmptyMap, Append(features, current_feature)>>

\* line.starts_with("XX") && in_feature
OnSectionBreak ==
    <<seq_record_id, organism, MapInsert(annotation, K_organism, organism),
      in_feature, current_feature, features>>

\* OnTerminator without the test of in_feature
OnTerminatorAlways ==
    <<seq_record_id, organism, annotation, FALSE, EmptyMap,
      Append(features, current_feature)>>

\* OnTerminator without `in_feature = false`
OnTerminatorLeaveOpen ==
    IF in_feature
       THEN <<seq_record_id, organism, annotation, in_feature, EmptyMap,
              Append(features, current_feature)>>
       ELSE <<seq_record_id, organism, annotation, in_feature, current_feature,
              features>>

\* line.starts_with("//")
OnTerminator ==
    IF in_feature
       THEN <<seq_record_id, organism, annotation, FALSE, EmptyMap,
              Append(features, current_feature)>>
       ELSE <<seq_record_id, organism, annotation, in_feature, current_feature,
              features>>

\* the if / else if chain over the prefixes of `line`
ParseLine(line) ==
    IF StartsWith(line, P_ID) THEN OnIdentifier(line)
    ELSE IF StartsWith(line, P_OC) THEN OnOrganism(line)
    ELSE IF StartsWith(line, P_FT) THEN OnFeatureTable(line)
    ELSE IF StartsWith(line, P_XX) /\ in_feature THEN OnSectionBreak
    ELSE IF StartsWith(line, P_END) THEN OnTerminator
    ELSE <<seq_record_id, organism, annotation, in_feature, current_feature,
           features>>

\* one iteration of `for line in reader.lines()`
ReadLine ==
    /\ pc = "read"
    /\ lines # <<>>
    /\ LET new == ParseLine(Head(lines))
       IN  /\ seq_record_id' = new[1]
           /\ organism' = new[2]
           /\ annotation' = new[3]
           /\ in_feature' = new[4]
           /\ current_feature' = new[5]
           /\ features' = new[6]
    /\ lines' = Tail(lines)
    /\ UNCHANGED <<args, fs, pc, procVars, builderVars, dotVars, convertVars>>

(***************************************************************************)
(* process_embl: the graph builder                                         *)
(***************************************************************************)
\* end of input: the contig node line
BuildContig ==
    /\ pc = "read"
    /\ lines = <<>>
    /\ content' = Append(content,
                         ToJsonText(ContigNode(seq_record_id, organism, annotation)))
    /\ pc' = "features"
    /\ UNCHANGED <<args, fs, procVars, parserVars, rid, index, dotVars, convertVars>>

\* one iteration of `for (index, feature) in features.iter().enumerate()`
BuildFeature ==
    /\ pc = "features"
    /\ index < Len(features)
    /\ content' = content \o
            <<ToJsonText(FeatureNode(seq_record_id, organism, index,
                                     features[index + 1])),
              ToJsonText(Relationship(seq_record_id, rid, index))>>
    /\ rid' = rid + 1
    /\ index' = index + 1
    /\ UNCHANGED <<args, fs, pc, procVars, parserVars, dotVars, convertVars>>

\* the loop is over: File::create(output_json).expect(..)
CreateJson ==
    /\ pc = "features"
    /\ index >= Len(features)
    /\ \/ /\ fs' = [fs EXCEPT ![args[4]] = File(<<>>)]
          /\ pc' = "write_json"
          /\ UNCHANGED procVars
       \/ /\ Panic("create", "Failed to create JSON file")
          /\ UNCHANGED fs
    /\ UNCHANGED <<args, parserVars, builderVars, dotVars, convertVars>>

\* output_file.write_all(content.as_bytes()).expect(..)
WriteJson ==
    /\ pc = "write_json"
    /\ \/ /\ fs' = [fs EXCEPT ![args[4]] = File(content)]
          /\ pc' = "open_json"
          /\ UNCHANGED procVars
       \/ /\ Panic("write", "Failed to write JSON")
          /\ UNCHANGED fs
    /\ UNCHANGED <<args, parserVars, builderVars, dotVars, convertVars>>

(***************************************************************************)
(* generate_graph(output_json, "graph.dot")                                *)
(***************************************************************************)
\* str::replace("\"", "\\\"")
RECURSIVE DotEscape(_)
DotEscape(cs) ==
    IF cs = <<>> THEN <<>>
    ELSE (IF Head(cs) = "\"" THEN <<"\\", "\"">> ELSE <<Head(cs)>>)
         \o DotEscape(Tail(cs))

\* format!("    \"{}\" [label=\"{}\"]\n", id, name), without the newline
VertexLine(id, name) == T_indent \o id \o T_label \o name \o T_close

\* format!("    \"{}\" -> \"{}\" [label=\"{}\"]\n", start_id, end_id, label)
EdgeLine(start_id, end_id, label) ==
    T_indent \o start_id \o T_arrow \o end_id \o T_label \o label \o T_close

\* the unwrap()s of the match arm for `value` succeed
DotLineOk(value) ==
    LET ty == GetStr(value, K_type)
    IN  IF ty = <<S_node>> THEN GetStr(value, K_id) # <<>>
        ELSE IF ty = <<S_relationship>>
            THEN /\ GetStr(Index(value, K_start), K_id) # <<>>
                 /\ GetStr(Index(value, K_end), K_id) # <<>>
        ELSE TRUE

\* DotLinesOf without the replace("\"", "\\\"") of the name and the label
DotLinesOfUnescaped(value) ==
    LET ty == GetStr(value, K_type)
    IN  IF ty = <<S_node>> THEN
            <<VertexLine(GetStr(value, K_id)[1],
                         UnwrapOr(GetStr(Index(value, K_properties), K_name),
                                  S_unknown))>>
        ELSE IF ty = <<S_relationship>> THEN
            <<EdgeLine(GetStr(Index(value, K_start), K_id)[1],
                       GetStr(Index(value, K_end), K_id)[1],
                       UnwrapOr(GetStr(value, K_label), S_unknown))>>
        ELSE <<>>

\* the lines the match arm for `value` appends to dot_content
DotLinesOf(value) ==
    LET ty == GetStr(value, K_type)
    IN  IF ty = <<S_node>> THEN
            <<VertexLine(GetStr(value, K_id)[1],
                         DotEscape(UnwrapOr(GetStr(Index(value, K_properties), K_name),
                                            S_unknown)))>>
        ELSE IF ty = <<S_relationship>> THEN
            <<EdgeLine(GetStr(Index(value, K_start), K_id)[1],
                       GetStr(Index(value, K_end), K_id)[1],
                       DotEscape(UnwrapOr(GetStr(value, K_label), S_unknown)))>>
        ELSE <<>>

\* File::open(input_json).expect(..), then the graph declaration
GenOpen ==
    /\ pc = "open_json"
    /\ \/ /\ fs[args[4]].exists
          /\ dot_lines' = fs[args[4]].data
          /\ dot_content' = <<T_digraph>>
          /\ pc' = "dot_read"
          /\ UNCHANGED procVars
       \/ /\ Panic("open", "Failed to open JSON file.")
          /\ UNCHANGED dotVars
    /\ UNCHANGED <<args, fs, parserVars, builderVars, convertVars>>

\* the reader yields an Err: line.expect(..) panics
GenReadFail ==
    /\ pc = "dot_read"
    /\ dot_lines # <<>>
    /\ Panic("read", "Failed to read lines from JSON file")
    /\ UNCHANGED <<args, fs, parserVars, builderVars, dotVars, convertVars>>

\* one iteration of `for line in reader.lines()`
GenLine ==
    /\ pc = "dot_read"
    /\ dot_lines # <<>>
    /\ LET value == FromStr(Head(dot_lines))
       IN  IF value = <<>> THEN
                /\ Panic("json", "Failed to parse JSON line.")
                /\ UNCHANGED dotVars
           ELSE IF ~DotLineOk(value[1]) THEN
                /\ Panic("json", "called Option::unwrap() on a None value")
                /\ UNCHANGED dotVars
           ELSE /\ dot_content' = dot_content \o DotLinesOf(value[1])
                /\ dot_lines' = Tail(dot_lines)
                /\ UNCHANGED <<pc, procVars>>
    /\ UNCHANGED <<args, fs, parserVars, builderVars, convertVars>>

\* the loop is over: the closing brace, File::create(output_dot).expect(..)
GenCreate ==
    /\ pc = "dot_read"
    /\ dot_lines = <<>>
    /\ dot_content' = Append(dot_content, <<"}">>)
    /\ \/ /\ fs' = [fs EXCEPT ![N_graph_dot] = File(<<>>)]
          /\ pc' = "write_dot"
          /\ UNCHANGED procVars
       \/ /\ Panic("create", "Failed to create DOT file.")
          /\ UNCHANGED fs
    /\ UNCHANGED <<args, parserVars, builderVars, dot_lines, convertVars>>

\* output_file.write_all(..).expect(..); process_embl and main return
GenWrite ==
    /\ pc = "write_dot"
    /\ \/ /\ fs' = [fs EXCEPT ![N_graph_dot] = File(dot_content)]
          /\ ReturnFromMain
          /\ UNCHANGED failure
       \/ /\ Panic("write", "Failed to write to DOT file.")
          /\ UNCHANGED fs
    /\ UNCHANGED <<args, parserVars, builderVars, dotVars, convertVars>>

(***************************************************************************)
(* convert_json(input_json, output_embl)                                   *)
(***************************************************************************)
\* ConvParse with File::create(output_embl) moved before the parsing
ConvParseAfterCreate ==
    /\ pc = "conv_parse"
    /\ fs' = [fs EXCEPT ![args[4]] = File(<<>>)]
    /\ LET parsed == FromStr(args[3])
       IN  IF parsed # <<>> /\ parsed[1].k = "arr"
              THEN /\ data' = parsed[1].a
                   /\ pc' = "conv_extract"
                   /\ UNCHANGED <<procVars, ret>>
              ELSE /\ ReturnErr("json")
                   /\ UNCHANGED data
    /\ UNCHANGED <<args, parserVars, builderVars, dotVars, embl_entries,
                   output_str>>

\* let data: Vec<serde_json::Value> = serde_json::from_str(input_json)?
ConvParse ==
    /\ pc = "conv_parse"
    /\ LET parsed == FromStr(args[3])
       IN  IF parsed # <<>> /\ parsed[1].k = "arr"
              THEN /\ data' = parsed[1].a
                   /\ pc' = "conv_extract"
                   /\ UNCHANGED <<procVars, ret>>
              ELSE /\ ReturnErr("json")
                   /\ UNCHANGED data
    /\ UNCHANGED <<args, fs, parserVars, builderVars, dotVars, embl_entries,
                   output_str>>

\* one iteration of `for entry in data`
ConvExtract ==
    /\ pc = "conv_extract"
    /\ data # <<>>
    /\ embl_entries' = embl_entries \o ExtractEntry(Head(data))
    /\ data' = Tail(data)
    /\ UNCHANGED <<args, fs, pc, procVars, parserVars, builderVars, dotVars,
                   output_str, ret>>

\* the first loop is over: let mut output_str = String::new()
ConvExtractEnd ==
    /\ pc = "conv_extract"
    /\ data = <<>>
    /\ pc' = "conv_generate"
    /\ UNCHANGED <<args, fs, procVars, parserVars, builderVars, dotVars,
                   convertVars>>

\* one iteration of `for entry in embl_entries`
ConvGenerate ==
    /\ pc = "conv_generate"
    /\ embl_entries # <<>>
    /\ output_str' = output_str \o BlockLines(Head(embl_entries))
    /\ embl_entries' = Tail(embl_entries)
    /\ UNCHANGED <<args, fs, pc, procVars, parserVars, builderVars, dotVars,
                   data, ret>>

\* the second loop is over: File::create(output_embl)?
ConvCreate ==
    /\ pc = "conv_generate"
    /\ embl_entries = <<>>
    /\ \/ /\ fs' = [fs EXCEPT ![args[4]] = File(<<>>)]
          /\ pc' = "conv_write"
          /\ UNCHANGED <<procVars, ret>>
       \/ /\ ReturnErr("create")
          /\ UNCHANGED fs
    /\ UNCHANGED <<args, parserVars, builderVars, dotVars, data, embl_entries,
                   output_str>>

\* writer.write_all(output_str.as_bytes())?; Ok(()), the writer is flushed
\* when dropped.  A failed write surfaces as Err, or (inside the drop) not at all.
ConvWrite ==
    /\ pc = "conv_write"
    /\ \/ /\ fs' = [fs EXCEPT ![args[4]] = File(output_str)]
          /\ ret' = "Ok"
          /\ ReturnFromMain
          /\ UNCHANGED failure
       \/ /\ \E r \in {"Ok", "Err"} : ret' = r
          /\ failure' = "write"
          /\ ReturnFromMain
          /\ UNCHANGED fs
    /\ UNCHANGED <<args, parserVars, builderVars, dotVars, data, embl_entries,
                   output_str>>

Next ==
    \/ MainUsage
    \/ MainProcess
    \/ MainConvert
    \/ OpenEmbl
    \/ ReadFail
    \/ ReadLine
    \/ BuildContig
    \/ BuildFeature
    \/ CreateJson
    \/ WriteJson
    \/ GenOpen
    \/ GenReadFail
    \/ GenLine
    \/ GenCreate
    \/ GenWrite
    \/ ConvParse
    \/ ConvExtract
    \/ ConvExtractEnd
    \/ ConvGenerate
    \/ ConvCreate
    \/ ConvWrite

Spec == Init /\ [][Next]_vars

SpecWide == InitWide /\ [][Next]_vars

(***************************************************************************)
(* generate_graph on its own: any line-delimited graph file as its input.  *)
(***************************************************************************)
\* a node whose name holds a double quote, and nodes without a string name
G_node ==
    JObj(<< <<K_id, JStr(<<"n">>)>>,
            <<K_properties, JObj(<< <<K_name, JStr(<<"a", "\"", "b">>)>> >>)>>,
            <<K_type, JStr(S_node)>> >>)
G_node_no_name ==
    JObj(<< <<K_id, JStr(<<"m">>)>>, <<K_properties, JObj(<<>>)>>,
            <<K_type, JStr(S_node)>> >>)
G_node_num_name ==
    JObj(<< <<K_id, JStr(<<"k">>)>>,
            <<K_properties, JObj(<< <<K_name, JNum(3)>> >>)>>,
            <<K_type, JStr(S_node)>> >>)
\* a relationship with a label and one without
G_rel ==
    JObj(<< <<K_end, JObj(<< <<K_id, JStr(<<"m">>)>> >>)>>,
            <<K_label, JStr(S_OWNS)>>,
            <<K_start, JObj(<< <<K_id, JStr(<<"n">>)>> >>)>>,
            <<K_type, JStr(S_relationship)>> >>)
G_rel_no_label ==
    JObj(<< <<K_end, JObj(<< <<K_id, JStr(<<"k">>)>> >>)>>,
            <<K_start, JObj(<< <<K_id, JStr(<<"m">>)>> >>)>>,
            <<K_type, JStr(S_relationship)>> >>)
\* values of another type, of no type, and a value that is no object
G_other == JObj(<< <<K_id, JStr(<<"g">>)>>, <<K_type, JStr(W_graph)>> >>)
G_no_type == JObj(<< <<K_id, JStr(<<"g">>)>> >>)
G_number == JNum(7)
\* a node without an id: id.as_str().unwrap() panics
G_node_no_id == JObj(<< <<K_type, JStr(S_node)>> >>)
\* a line that is not JSON
T_not_json == <<"{">>

GraphLineAlphabet ==
    {ToJsonText(v) : v \in {G_node, G_node_no_name, G_node_num_name, G_rel,
                            G_rel_no_label, G_other, G_no_type, G_number,
                            G_node_no_id}}
    \cup {T_not_json}

\* the graph files: every sequence of at most n lines of the alphabet
GraphInputs(n) == UNION {[1..m -> GraphLineAlphabet] : m \in 0..n}

\* process_embl is at its call of generate_graph(output_json, "graph.dot")
InitDot ==
    /\ pc = "open_json"
    /\ exit_code = -1
    /\ stderr = <<>>
    /\ failure = "none"
    /\ InitLocals
    /\ args = <<W_embl, W_process, N_in_embl, N_out_json>>
    /\ \E g \in GraphInputs(MaxGraphLines) :
            fs = [EmptyFs EXCEPT ![N_out_json] = File(g)]

NextDot ==
    \/ GenOpen
    \/ GenReadFail
    \/ GenLine
    \/ GenCreate
    \/ GenWrite

SpecDot == InitDot /\ [][NextDot]_vars

(***************************************************************************)
(* What the properties below read: the annotation input, and the graph     *)
(* file as process_embl has just written it, parsed back line by line.     *)
(***************************************************************************)
\* process_embl has written the graph file and not yet called generate_graph
GraphWritten == pc = "open_json"

Input == fs[N_in_embl].data
GraphFile == fs[N_out_json].data
GraphValues == [i \in 1..Len(GraphFile) |-> FromStr(GraphFile[i])[1]]

IsNode(v) == GetStr(v, K_type) = <<S_node>>
IsRelationship(v) == GetStr(v, K_type) = <<S_relationship>>
LabelsOf(v) == Index(v, K_labels)
IsContig(v) == IsNode(v) /\ LabelsOf(v) = JArr(<<JStr(S_Contig)>>)

\* the nodes, the feature nodes and the relationships of the file, in file order
Nodes == SelectSeq(GraphValues, IsNode)
FeatureNodes == SelectSeq(GraphValues, LAMBDA v : IsNode(v) /\ ~IsContig(v))
Relationships == SelectSeq(GraphValues, IsRelationship)

\* the lines of the input that begin with FT, in input order
FtLinesOf(input) == SelectSeq(input, LAMBDA l : StartsWith(l, P_FT))

\* some line after position i of the input begins with //
TerminatedAfter(input, i) ==
    \E j \in (i + 1)..Len(input) : StartsWith(input[j], P_END)

\* every FT line of the input is followed, somewhere, by a // line
LastFeatureTerminated(input) ==
    \A i \in 1..Len(input) : StartsWith(input[i], P_FT) => TerminatedAfter(input, i)

\* the input holds no // line except, possibly, as its last line: one record
OneRecord(input) ==
    \A i \in 1..Len(input) : StartsWith(input[i], P_END) => i = Len(input)

\* the file is one contig node line, k feature node lines, k relationship lines
HasLineCounts(k) ==
    /\ Len(GraphFile) = 1 + 2 * k
    /\ Len(SelectSeq(GraphValues, IsContig)) = 1
    /\ Len(FeatureNodes) = k
    /\ Len(Relationships) = k

(***************************************************************************)
(* C1.  As stated: for an input of one record with k lines beginning with  *)
(* FT, the graph file has 1 + 2k lines: one contig node, k feature nodes   *)
(* and k relationships.                                                    *)
(***************************************************************************)
C1_LineCountOfOneRecord ==
    (GraphWritten /\ OneRecord(Input)) => HasLineCounts(Len(FtLinesOf(Input)))

\* C1, amended: for an input of one record with k lines beginning with FT whose
\* // line follows the last of them (or with k = 0), the graph file has 1 + 2k
\* lines: one contig node, k feature nodes and k relationships.
C1_LineCountWhenTerminated ==
    (GraphWritten /\ OneRecord(Input) /\ LastFeatureTerminated(Input))
        => HasLineCounts(Len(FtLinesOf(Input)))

C1_Witness ==
    /\ GraphWritten
    /\ OneRecord(Input)
    /\ LastFeatureTerminated(Input)
    /\ Len(FtLinesOf(Input)) = 3
    /\ Len(GraphFile) = 7

(***************************************************************************)
(* C2.  With at least one feature, the first relationship is labelled OWNS *)
(* and starts at the contig node; every later relationship i is labelled   *)
(* NEXT, starts at feature node i-1 and ends at feature node i.            *)
(***************************************************************************)
C2_OwnsThenNext ==
    (GraphWritten /\ FeatureNodes # <<>>) =>
        /\ Len(Relationships) = Len(FeatureNodes)
        /\ GetStr(Relationships[1], K_label) = <<S_OWNS>>
        /\ GetStr(Index(Relationships[1], K_start), K_id)
                = GetStr(GraphValues[1], K_id)
        /\ IsContig(GraphValues[1])
        /\ \A j \in 2..Len(Relationships) :
            /\ GetStr(Relationships[j], K_label) = <<S_NEXT>>
            /\ GetStr(Index(Relationships[j], K_start), K_id)
                    = GetStr(FeatureNodes[j - 1], K_id)
            /\ GetStr(Index(Relationships[j], K_end), K_id)
                    = GetStr(FeatureNodes[j], K_id)

C2_Witness ==
    /\ GraphWritten
    /\ Len(Relationships) = 3
    /\ GetStr(Relationships[3], K_label) = <<S_NEXT>>

(***************************************************************************)
(* C3.  The i-th relationship (from 0) has id "{recordId}_r_{i}", recordId *)
(* being the id of the contig node: a dense sequence, whatever the label.  *)
(***************************************************************************)
C3_DenseRelationshipIds ==
    GraphWritten =>
        \A j \in 1..Len(Relationships) :
            GetStr(Relationships[j], K_id) =
                <<GetStr(GraphValues[1], K_id)[1] \o <<"_", "r", "_">> \o Digits(j - 1)>>

C3_Witness ==
    /\ GraphWritten
    /\ Len(Relationships) = 2
    /\ GetStr(GraphValues[1], K_id) = <<<<"A", "1">>>>
    /\ GetStr(Relationships[2], K_id) = <<<<"A", "1", "_", "r", "_", "1">>>>

(***************************************************************************)
(* C7.  A feature still open when the input ends without a // line is left *)
(* unflushed: an input with k >= 1 lines beginning with FT and no // line  *)
(* after the last of them yields features, feature nodes and relationships *)
(* for the first k - 1 of them only, and the last stays open.              *)
(***************************************************************************)
\* the feature an FT line opens: its type, if the line has text after a space
FeatureOf(line) ==
    IF FirstSpace(line) = 0 THEN EmptyMap
    ELSE (K_type :> JStr(FeatureTypeOf(line)))

\* the input has an FT line with no // line after the last one
EndsInOpenFeature(input) == ~LastFeatureTerminated(input)

\* C7: with no // line after the last FT line, only the FT lines before the
\* last one give features, nodes and relationships; the last stays open.
C7_OpenFeatureUnflushed ==
    (GraphWritten /\ EndsInOpenFeature(Input)) =>
        LET ft == FtLinesOf(Input)
            k == Len(ft)
        IN  /\ Len(features) = k - 1
            /\ \A i \in 1..(k - 1) : features[i] = FeatureOf(ft[i])
            /\ in_feature
            /\ current_feature = FeatureOf(ft[k])
            /\ Len(FeatureNodes) = k - 1
            /\ Len(Relationships) = k - 1
            /\ Len(GraphFile) = 1 + 2 * (k - 1)

C7_Witness ==
    /\ GraphWritten
    /\ EndsInOpenFeature(Input)
    /\ Len(FtLinesOf(Input)) = 3
    /\ Len(features) = 2
    /\ \E i \in 1..Len(Input) : StartsWith(Input[i], P_END)

(***************************************************************************)
(* C8.  The contig node is the first line; then, for each flushed feature  *)
(* at index i in parse order, its node (id "{recordId}_{i}", properties    *)
(* type that of the i-th parsed feature, label Lead iff i = 0, else Gene)  *)
(* is immediately followed by the relationship ending at it; there are as  *)
(* many feature nodes, and as many relationships, as parsed features.      *)
(* (A parsed feature without a type is written with type "Unknown".)       *)
(***************************************************************************)
C8_OutputOrder ==
    GraphWritten =>
        /\ IsContig(GraphValues[1])
        /\ Len(GraphFile) = 1 + 2 * Len(features)
        /\ Len(FeatureNodes) = Len(features)
        /\ Len(Relationships) = Len(features)
        /\ \A i \in 0..(Len(features) - 1) :
            LET node == GraphValues[2 * i + 2]
                rel == GraphValues[2 * i + 3]
            IN  /\ IsNode(node)
                /\ GetStr(node, K_id) = <<seq_record_id \o <<"_">> \o Digits(i)>>
                /\ Get(Index(node, K_properties), K_type) =
                        <<IF K_type \in DOMAIN features[i + 1]
                            THEN features[i + 1][K_type] ELSE JStr(S_Unknown)>>
                /\ LabelsOf(node) = JArr(<<JStr(IF i = 0 THEN S_Lead ELSE S_Gene)>>)
                /\ IsRelationship(rel)
                /\ GetStr(Index(rel, K_end), K_id) = GetStr(node, K_id)

C8_Witness ==
    /\ GraphWritten
    /\ Len(features) = 3
    /\ features[1] # features[2]
    /\ LabelsOf(GraphValues[6]) = JArr(<<JStr(S_Gene)>>)

(***************************************************************************)
(* C9.  As stated: for every relationship, start.labels equals the labels  *)
(* of the node whose id is start.id, and end.labels equals the labels of   *)
(* the node whose id is end.id.                                            *)
(***************************************************************************)
\* the hint (an {id, labels} object) names a node of the file with its labels
HintCorrect(hint) ==
    /\ \E i \in 1..Len(Nodes) : GetStr(Nodes[i], K_id) = GetStr(hint, K_id)
    /\ \A i \in 1..Len(Nodes) :
            GetStr(Nodes[i], K_id) = GetStr(hint, K_id)
                => LabelsOf(Nodes[i]) = LabelsOf(hint)

\* C9, as stated: both hints of every relationship carry the labels of the
\* node they name.
C9_HintsCorrect ==
    GraphWritten =>
        \A j \in 1..Len(Relationships) :
            /\ HintCorrect(Index(Relationships[j], K_start))
            /\ HintCorrect(Index(Relationships[j], K_end))

\* C9, amended: end.labels is always correct, and start.labels is correct for
\* every relationship but the second: its start hint is "Gene", while its start
\* node, the first feature node, is labelled "Lead".
C9_HintsCorrectButSecond ==
    GraphWritten =>
        \A j \in 1..Len(Relationships) :
            /\ HintCorrect(Index(Relationships[j], K_end))
            /\ j # 2 => HintCorrect(Index(Relationships[j], K_start))
            /\ j = 2 =>
                /\ LabelsOf(Index(Relationships[j], K_start)) = JArr(<<JStr(S_Gene)>>)
                /\ GetStr(Index(Relationships[j], K_start), K_id)
                        = GetStr(FeatureNodes[1], K_id)
                /\ LabelsOf(FeatureNodes[1]) = JArr(<<JStr(S_Lead)>>)

C9_Witness ==
    /\ GraphWritten
    /\ Len(Relationships) = 3
    /\ HintCorrect(Index(Relationships[3], K_start))
    /\ ~HintCorrect(Index(Relationships[2], K_start))

(***************************************************************************)
(* C10.  As stated: when an ID line has no second whitespace-delimited     *)
(* token, or an FT line no feature-type token after the tag, the parser    *)
(* substitutes the empty string and goes on; the value that reaches the    *)
(* output for the missing field is the empty string.                       *)
(***************************************************************************)
\* the line is its tag alone: no second whitespace-delimited token
LacksField(line) == Len(SplitWhitespace(line)) < 2

IdLinesOf(input) == SelectSeq(input, LAMBDA l : StartsWith(l, P_ID))

\* the last ID line of the input lacks its field, and the contig id is ""
MissingIdIsEmpty ==
    LET ids == IdLinesOf(Input)
    IN  (ids # <<>> /\ LacksField(ids[Len(ids)]))
            => GetStr(GraphValues[1], K_id) = <<<<>>>>

\* the type and the name written for the i-th feature node
WrittenType(i) == Get(Index(FeatureNodes[i], K_properties), K_type)
WrittenName(i) == GetStr(Index(FeatureNodes[i], K_properties), K_name)

\* every line was processed: each FT line opened a feature, nothing aborted
AllLinesProcessed ==
    /\ failure = "none"
    /\ Len(features) + (IF in_feature THEN 1 ELSE 0) = Len(FtLinesOf(Input))

\* C10, as stated: every line is processed, and a missing record id or
\* feature type is written as the empty string.
C10_MissingFieldIsEmpty ==
    GraphWritten =>
        /\ AllLinesProcessed
        /\ MissingIdIsEmpty
        /\ \A i \in 1..Len(FeatureNodes) :
            LacksField(FtLinesOf(Input)[i]) =>
                /\ WrittenType(i) = <<JStr(<<>>)>>
                /\ WrittenName(i) = <<<<>>>>

\* C10, amended: an ID line without a second token gives the record id "", and
\* an FT line that has a space after the tag but no token gives the type "";
\* an FT line that holds no space at all (the tag alone) stores no type, and
\* its node is written with type "Unknown" and name "Unnamed".  Processing
\* continues in each case.
C10_MissingFieldRecovered ==
    GraphWritten =>
        /\ AllLinesProcessed
        /\ MissingIdIsEmpty
        /\ \A i \in 1..Len(FeatureNodes) :
            LET line == FtLinesOf(Input)[i]
            IN  /\ (LacksField(line) /\ FirstSpace(line) # 0) =>
                        /\ WrittenType(i) = <<JStr(<<>>)>>
                        /\ WrittenName(i) = <<<<>>>>
                /\ FirstSpace(line) = 0 =>
                        /\ WrittenType(i) = <<JStr(S_Unknown)>>
                        /\ WrittenName(i) = <<S_Unnamed>>

C10_Witness ==
    /\ GraphWritten
    /\ Input = <<L_ID_BARE, L_FT_BLANK, L_END>>
    /\ GetStr(GraphValues[1], K_id) = <<<<>>>>
    /\ WrittenType(1) = <<JStr(<<>>)>>

(***************************************************************************)
(* What the properties of convert read.                                    *)
(***************************************************************************)
\* the invocation is `convert <operand> <output>` and has ended
ConvertEnded == pc = "exit" /\ Len(args) >= 4 /\ args[2] = W_convert

\* the text is the text of a JSON array
IsArrayText(text) == FromStr(text) # <<>> /\ FromStr(text)[1].k = "arr"

\* the element has `properties` holding the key as a string
HasString(element, key) ==
    /\ element.k = "obj"
    /\ \E i \in 1..Len(element.o) :
        /\ element.o[i][1] = K_properties
        /\ element.o[i][2].k = "obj"
        /\ \E j \in 1..Len(element.o[i][2].o) :
            /\ element.o[i][2].o[j][1] = key
            /\ element.o[i][2].o[j][2].k = "str"

\* the element carries all four annotation properties as strings
Annotated(element) ==
    \A key \in {K_locus_tag, K_protein_id, K_product, K_translation} :
        HasString(element, key)

\* the string the element's properties hold for the key
PropertyOf(element, key) == GetStr(Get(element, K_properties)[1], key)[1]

\* the block of an annotated element
BlockOf(element) ==
    BlockLines([locus_tag |-> PropertyOf(element, K_locus_tag),
                protein_id |-> PropertyOf(element, K_protein_id),
                product |-> PropertyOf(element, K_product),
                translation |-> PropertyOf(element, K_translation)])

\* the blocks of the annotated elements of the array, in array order
RECURSIVE Reduced(_)
Reduced(array) ==
    IF array = <<>> THEN <<>>
    ELSE (IF Annotated(Head(array)) THEN BlockOf(Head(array)) ELSE <<>>)
         \o Reduced(Tail(array))

(***************************************************************************)
(* C4.  The reducer is a pure filter over the input array: the blocks      *)
(* written are those of exactly the elements whose properties hold all     *)
(* four of locus_tag, protein_id, product and translation as strings, in   *)
(* array order; any other element gives no block and no error.             *)
(***************************************************************************)
C4_ReducerIsFilter ==
    (ConvertEnded /\ IsArrayText(args[3])) =>
        /\ failure \in {"none", "create", "write"}
        /\ failure = "none" =>
            /\ ret = "Ok"
            /\ fs[args[4]] = File(Reduced(FromStr(args[3])[1].a))

C4_Witness ==
    /\ ConvertEnded
    /\ failure = "none"
    /\ FromStr(args[3]) = <<JArr(<<E_no_translation, E_clutter>>)>>
    /\ fs[args[4]] = File(BlockLines([locus_tag |-> <<"M">>, protein_id |-> <<"Q">>,
                                      product |-> <<"Y">>, translation |-> <<"U">>]))

(***************************************************************************)
(* C5.  `convert <input-graph-array-file> <output-annotation-file>` applies *)
(* the reducer to the contents of the file named by its first operand:     *)
(* when that file holds a JSON array, the output file is the reducer's      *)
(* result on it.                                                            *)
(***************************************************************************)
C5_ConvertReadsInputFile ==
    (/\ ConvertEnded
     /\ failure \notin {"create", "write"}
     /\ args[3] \in FileNames
     /\ fs[args[3]].exists
     /\ Len(fs[args[3]].data) = 1
     /\ IsArrayText(fs[args[3]].data[1]))
        => fs[args[4]] = File(Reduced(FromStr(fs[args[3]].data[1])[1].a))

(***************************************************************************)
(* C6.  Every fatal failure of either command (a failure to open, create,  *)
(* read or write a file, or malformed graph JSON) ends the process with a  *)
(* non-zero exit status and a message; none ends with exit status 0.       *)
(***************************************************************************)
C6_FatalFailureExitsNonZero ==
    (pc = "exit" /\ failure # "none") => (exit_code # 0 /\ stderr # <<>>)

(***************************************************************************)
(* What the properties of the DOT projector read.                          *)
(***************************************************************************)
\* generate_graph has returned: graph.dot is written
DotWritten == pc = "exit" /\ failure = "none" /\ Len(args) >= 4 /\ args[2] = W_process

DotFile == fs[N_graph_dot].data

\* the string the value holds at the path of keys, or "unknown" without one
RECURSIVE StringAt(_, _)
StringAt(v, path) ==
    IF path = <<>> THEN (IF v.k = "str" THEN v.s ELSE S_unknown)
    ELSE IF v.k = "obj" /\ \E i \in 1..Len(v.o) : v.o[i][1] = Head(path)
        THEN StringAt(v.o[CHOOSE i \in 1..Len(v.o) : v.o[i][1] = Head(path)][2],
                      Tail(path))
    ELSE S_unknown

\* the statement the projector owes to one value of the graph file
StatementOf(v) ==
    IF v.k = "obj" /\ StringAt(v, <<K_type>>) = S_node THEN
        <<T_indent \o StringAt(v, <<K_id>>) \o T_label
          \o DotEscape(StringAt(v, <<K_properties, K_name>>)) \o T_close>>
    ELSE IF v.k = "obj" /\ StringAt(v, <<K_type>>) = S_relationship THEN
        <<T_indent \o StringAt(v, <<K_start, K_id>>) \o T_arrow
          \o StringAt(v, <<K_end, K_id>>) \o T_label
          \o DotEscape(StringAt(v, <<K_label>>)) \o T_close>>
    ELSE <<>>

\* the statements owed to the lines of a graph file, in line order
RECURSIVE StatementsOf(_)
StatementsOf(file) ==
    IF file = <<>> THEN <<>>
    ELSE StatementOf(FromStr(Head(file))[1]) \o StatementsOf(Tail(file))

(***************************************************************************)
(* C11.  Between the header and the footer the projector writes one vertex *)
(* statement for each line of type "node" (its id, and properties.name or  *)
(* "unknown" as the label), one edge statement for each line of type       *)
(* "relationship" (start.id to end.id, label or "unknown"), in line order, *)
(* and nothing for a line of any other type or of none.                    *)
(***************************************************************************)
C11_ProjectorStatements ==
    DotWritten =>
        fs[N_graph_dot] =
            File(<<T_digraph>> \o StatementsOf(fs[args[4]].data) \o <<<<"}">>>>)

C11_Witness ==
    /\ DotWritten
    /\ fs[args[4]].data =
            <<ToJsonText(G_other), ToJsonText(G_node), ToJsonText(G_rel_no_label)>>
    /\ DotFile =
            <<T_digraph,
              T_indent \o <<"n">> \o T_label \o <<"a", "\\", "\"", "b">> \o T_close,
              T_indent \o <<"m">> \o T_arrow \o <<"k">> \o T_label \o S_unknown
                \o T_close,
              <<"}">>>>

(***************************************************************************)
(* C12.  A `process` invocation either completes, the graph file and       *)
(* graph.dot both written, or fails as a whole: none ends in a failure     *)
(* with the graph file written and graph.dot not.                          *)
(***************************************************************************)
\* the invocation is `process <input> <output>` and has ended
ProcessEnded == pc = "exit" /\ Len(args) >= 4 /\ args[2] = W_process

C12_NoPartialResult ==
    (ProcessEnded /\ failure # "none") =>
        ~(/\ fs[args[4]].exists
          /\ fs[args[4]].data # <<>>
          /\ fs[N_graph_dot].data = <<>>)

(***************************************************************************)
(* What the properties of the line parser read: one iteration of the loop. *)
(***************************************************************************)
\* the step is an iteration of the loop on the line at the head of `lines`
LineStep == pc = "read" /\ lines # <<>> /\ lines' = Tail(lines)

\* the step processes a line of the given prefix
FtStep == LineStep /\ StartsWith(Head(lines), P_FT)
XxStep == LineStep /\ StartsWith(Head(lines), P_XX)
EndStep == LineStep /\ StartsWith(Head(lines), P_END)

(***************************************************************************)
(* C14.  An FT line processed while a feature is open appends exactly one  *)
(* element, the open feature as it was, to the feature list and changes no *)
(* earlier element; in every case it leaves a feature open whose map holds *)
(* only the type taken from this line, nothing of a previous feature.      *)
(***************************************************************************)
C14_FeatureTableStep ==
    [][FtStep =>
        /\ in_feature => features' = Append(features, current_feature)
        /\ in_feature'
        /\ current_feature' = FeatureOf(Head(lines))]_vars

C14_Witness ==
    /\ pc = "read"
    /\ in_feature
    /\ features = <<(K_type :> JStr(<<"C", "D", "S">>)), EmptyMap>>
    /\ current_feature = (K_type :> JStr(<<"C", "D", "S">>))

(***************************************************************************)
(* C15.  An XX line processed while a feature is open sets                 *)
(* annotations["organism"] to the organism of that moment and leaves       *)
(* in_feature, the open feature and the feature list as they were; an XX   *)
(* line processed with no feature open changes nothing.  So the contig's   *)
(* annotations are empty unless an XX line follows an FT line with no //   *)
(* line between them.                                                      *)
(***************************************************************************)
\* some XX line of the input follows an FT line with no // line between them
XxInOpenFeature(input) ==
    \E i, j \in 1..Len(input) :
        /\ i < j
        /\ StartsWith(input[i], P_FT)
        /\ StartsWith(input[j], P_XX)
        /\ \A m \in i..j : ~StartsWith(input[m], P_END)

\* the annotations the contig node of the graph file carries
ContigAnnotations == Index(Index(GraphValues[1], K_properties), K_annotations)

C15_SectionBreakStep ==
    /\ [][XxStep =>
            /\ UNCHANGED <<in_feature, current_feature, features, seq_record_id,
                           organism>>
            /\ in_feature =>
                /\ DOMAIN annotation' = DOMAIN annotation \cup {K_organism}
                /\ annotation'[K_organism] = organism
            /\ ~in_feature => annotation' = annotation]_vars
    /\ [](GraphWritten =>
            (ContigAnnotations = JObj(<<>>) <=> ~XxInOpenFeature(Input)))

C15_Witness ==
    /\ GraphWritten
    /\ in_feature
    /\ current_feature = (K_type :> JStr(<<"C", "D", "S">>))
    /\ ContigAnnotations = JObj(<< <<K_organism, JStr(<<"B", ".">>)>> >>)

(***************************************************************************)
(* C16.  After any prefix of the input lines, the length of the feature    *)
(* list, plus one if a feature is open, is the number of FT lines          *)
(* processed so far; the feature list only grows, by appending; with no    *)
(* feature open the open-feature map is empty; and a // line with no       *)
(* feature open (a repeated // among them) changes nothing.                *)
(***************************************************************************)
\* the lines of the input the loop has processed so far
Processed == SubSeq(Input, 1, Len(Input) - Len(lines))

\* the reader of process_embl is open: the loop runs, or is over
ReaderOpened == pc \notin {"main", "open_embl"}

C16_ParserInvariant ==
    /\ [](ReaderOpened =>
            /\ Len(features) + (IF in_feature THEN 1 ELSE 0)
                    = Len(FtLinesOf(Processed))
            /\ ~in_feature => current_feature = EmptyMap)
    /\ [][/\ Len(features') \in {Len(features), Len(features) + 1}
          /\ SubSeq(features', 1, Len(features)) = features]_vars
    /\ [][(EndStep /\ ~in_feature) =>
            UNCHANGED <<seq_record_id, organism, annotation, in_feature,
                        current_feature, features>>]_vars

C16_Witness ==
    /\ pc = "read"
    /\ Processed = <<L_FT_CDS, L_END, L_END>>
    /\ lines # <<>>
    /\ ~in_feature
    /\ Len(features) = 1
    /\ current_feature = EmptyMap

(***************************************************************************)
(* C17.  In the graph file the ids of the nodes are pairwise distinct, the *)
(* ids of the relationships are pairwise distinct and differ from every    *)
(* node id, and each relationship's start.id and end.id are ids of nodes   *)
(* on earlier lines than the relationship.                                 *)
(***************************************************************************)
\* the positions of the node lines and of the relationship lines of the file
NodeLines == {i \in 1..Len(GraphFile) : IsNode(GraphValues[i])}
RelationshipLines == {i \in 1..Len(GraphFile) : IsRelationship(GraphValues[i])}

IdAt(i) == GetStr(GraphValues[i], K_id)

\* the id is that of a node on a line before line i
NodeBefore(id, i) == \E n \in NodeLines : n < i /\ IdAt(n) = id

C17_ReferentialIntegrity ==
    GraphWritten =>
        /\ \A i \in 1..Len(GraphFile) : Len(IdAt(i)) = 1
        /\ \A i, j \in NodeLines \cup RelationshipLines : i # j => IdAt(i) # IdAt(j)
        /\ \A r \in RelationshipLines :
            /\ NodeBefore(GetStr(Index(GraphValues[r], K_start), K_id), r)
            /\ NodeBefore(GetStr(Index(GraphValues[r], K_end), K_id), r)

C17_Witness ==
    /\ GraphWritten
    /\ Len(GraphFile) = 5
    /\ IdAt(1) = <<<<"A", "1">>>>
    /\ IdAt(4) = <<<<"A", "1", "_", "1">>>>
    /\ IdAt(5) = <<<<"A", "1", "_", "r", "_", "1">>>>
    /\ GetStr(Index(GraphValues[5], K_start), K_id) = <<<<"A", "1", "_", "0">>>>

(***************************************************************************)
(* What the composition property reads: the statements of graph.dot.       *)
(***************************************************************************)
\* the characters of the line from position i up to the next double quote
RECURSIVE UpToQuote(_, _)
UpToQuote(line, i) ==
    IF i > Len(line) \/ line[i] = "\"" THEN <<>>
    ELSE <<line[i]>> \o UpToQuote(line, i + 1)

\* the quoted identifier a statement starts with, and the text after it
IdentifierOf(line) == UpToQuote(line, Len(T_indent) + 1)
AfterIdentifier(line) ==
    SubSeq(line, Len(T_indent) + Len(IdentifierOf(line)) + 1, Len(line))

IsVertexStatement(line) ==
    StartsWith(line, T_indent) /\ StartsWith(AfterIdentifier(line), T_label)
IsEdgeStatement(line) ==
    StartsWith(line, T_indent) /\ StartsWith(AfterIdentifier(line), T_arrow)

\* the identifier an edge statement points to
TargetOf(line) ==
    UpToQuote(line, Len(T_indent) + Len(IdentifierOf(line)) + Len(T_arrow) + 1)

VertexStatements == SelectSeq(DotFile, IsVertexStatement)
EdgeStatements == SelectSeq(DotFile, IsEdgeStatement)
VertexIdentifiers == {IdentifierOf(VertexStatements[i]) : i \in 1..Len(VertexStatements)}

\* the value is an object of type node or relationship, with strings for ids
WellFormedLine(text) ==
    /\ FromStr(text) # <<>>
    /\ LET v == FromStr(text)[1]
       IN  /\ v.k = "obj"
           /\ \/ /\ IsNode(v)
                 /\ GetStr(v, K_id) # <<>>
              \/ /\ IsRelationship(v)
                 /\ GetStr(Index(v, K_start), K_id) # <<>>
                 /\ GetStr(Index(v, K_end), K_id) # <<>>

(***************************************************************************)
(* C18.  Without an I/O failure the projection does not abort on the graph *)
(* file process_embl has just written: every line of it is an object of    *)
(* type node or relationship with string ids, and for n flushed features   *)
(* graph.dot holds 1 + n vertex statements and n edge statements, each     *)
(* edge between identifiers of vertex statements of the file.              *)
(***************************************************************************)
C18_ProjectionOfBuiltGraph ==
    (Len(args) >= 4 /\ args[2] = W_process) =>
        /\ failure # "json"
        /\ GraphWritten => \A i \in 1..Len(GraphFile) : WellFormedLine(GraphFile[i])
        /\ DotWritten =>
            /\ Len(VertexStatements) = 1 + Len(features)
            /\ Len(EdgeStatements) = Len(features)
            /\ Len(DotFile) = 2 + 1 + 2 * Len(features)
            /\ \A i \in 1..Len(EdgeStatements) :
                /\ IdentifierOf(EdgeStatements[i]) \in VertexIdentifiers
                /\ TargetOf(EdgeStatements[i]) \in VertexIdentifiers

C18_Witness ==
    /\ DotWritten
    /\ Len(features) = 2
    /\ Len(DotFile) = 7
    /\ DotFile[6] = T_indent \o <<"A", "1", "_", "0">> \o T_arrow
                        \o <<"A", "1", "_", "1">> \o T_label \o S_NEXT \o T_close

(***************************************************************************)
(* C19.  When its input does not parse as a JSON array, convert_json       *)
(* returns the error before the output file is created or truncated: the   *)
(* file system is left as it was.  The output file is created only after   *)
(* the whole input has been parsed and reduced.                            *)
(***************************************************************************)
\* the invocation is `convert <operand> <output>`
IsConvert == Len(args) >= 4 /\ args[2] = W_convert

C19_ParseErrorLeavesFiles ==
    [][IsConvert =>
        /\ failure' = "json" => fs' = fs
        /\ fs' # fs =>
            /\ FromStr(args[3]) # <<>>
            /\ FromStr(args[3])[1].k = "arr"
            /\ data = <<>>
            /\ embl_entries = <<>>
            /\ pc \in {"conv_generate", "conv_write"}]_vars

C19_Witness ==
    /\ ConvertEnded
    /\ failure = "json"
    /\ ret = "Err"
    /\ fs[args[4]] = File(<<T_ORIGIN>>)
====
